---- MODULE Spec2Model ----
(***************************************************************************)
(* Model of src/main.py (class Program): schema partitioning, todo         *)
(* splitting, the three acquisition modes, report rotation / persist /     *)
(* rollback, and the warning and error records.                            *)
(***************************************************************************)
EXTENDS Integers, Sequences, FiniteSets, TLC

VARIABLES
    pc,                 \* position of the process in main() / Program.run
    mode,               \* the mode argument of run()
    now,                \* wall clock, in minutes (datetime.now(), st_mtime)
    runs,               \* number of program executions started so far
    dirs,               \* TRUE once check_folders() created tasks/, warnings/, errors/
    schemasRead,        \* TRUE once __init__ loaded the two schema files
    localRead,          \* TRUE once run() read the local users/todos files
    usersData,          \* the users collection the data source holds
    todosData,          \* the todos collection the data source holds
    users,              \* run(): local variable users
    todos,              \* run(): local variable todos
    i,                  \* run(): index of the user the for loop is at
    user_todo,          \* run(): local variable user_todo
    report,             \* run(): local variable report
    old_file,           \* run(): local variable old_file (NoPath for None)
    fs,                 \* the files of tasks/: path -> file
    pre,                \* history: fs before the current user's persist began
    fs0,                \* history: fs when the current execution started
    lastPersist,        \* history: outcome of the latest persist attempt
    failures,           \* history: persist failures seen in this execution
    done_users,         \* history: number of users whose loop body finished
    warnings,           \* Program._warnings
    warnFiles,          \* warnings/<minute>.txt : minute -> record
    errFiles,           \* errors/<minute>.txt : minute -> record
    requests,           \* requests.get calls issued in this execution
    fetchFailed,        \* TRUE once a requests.get raised RequestException
    saveWarningsCalls,  \* executions of save_warnings in this execution
    saveErrorsCalls,    \* executions of save_errors in this execution
    arg_id,             \* argument user_id of a direct call
    arg_list,           \* argument todo_list / json of a direct call
    ret                 \* value returned by a direct call

vars == <<pc, mode, now, runs, dirs, schemasRead, localRead, usersData,
          todosData, users, todos, i, user_todo, report, old_file, fs, pre,
          fs0, lastPersist, failures, done_users, warnings, warnFiles,
          errFiles, requests, fetchFailed, saveWarningsCalls,
          saveErrorsCalls, arg_id, arg_list, ret>>

----------------------------------------------------------------------------
(* Bounds *)

MaxUsers == 2        \* longest users collection of a run
MaxTodos == 2        \* longest todos collection of a run
MaxRuns == 2         \* executions of the program in one behaviour
MaxLocalRuns == 3    \* local executions in one behaviour
MaxMinute == 1       \* last minute the clock reaches
MaxSplitLen == 3     \* longest todo_list of a direct get_user_todo_names call
MaxJsonLen == 3      \* longest json of a direct simple_validate call

(* Program constants *)

TitleLimit == 48

Modes == {"local", "less_requests", "normal"}
ModeArgs == Modes \cup {"fast"}

----------------------------------------------------------------------------
(* Generic helpers *)

RECURSIVE SeqsUpTo(_, _)
SeqsUpTo(S, n) ==
    IF n = 0 THEN {<<>>}
    ELSE LET shorter == SeqsUpTo(S, n - 1)
         IN shorter \cup {Append(s, x) : s \in {t \in shorter : Len(t) = n - 1}, x \in S}

Range(s) == {s[k] : k \in 1..Len(s)}

\* title of n characters: c up to TitleLimit, then z
MkTitle(n, c) == [k \in 1..n |-> IF k <= TitleLimit THEN c ELSE "z"]

Ellipsis == <<".", ".", ".">>

----------------------------------------------------------------------------
(* Program.simple_validate *)

\* validate(instance, schema): the schema is opaque, the record's field ok
\* stands for "validate does not raise ValidationError"
validate(element) == element.ok

Diagnostic(element) == <<"schema validation error on element", element>>

RECURSIVE ValidateLoop(_, _, _)
ValidateLoop(json, num, acc) ==
    IF num > Len(json) THEN acc
    ELSE LET element == json[num]
         IN IF validate(element)
            THEN ValidateLoop(json, num + 1,
                    [acc EXCEPT !.valid = Append(@, element)])
            ELSE ValidateLoop(json, num + 1,
                    [acc EXCEPT !.warnings = Append(@, Diagnostic(element)),
                                !.wrong = Append(@, element)])

\* mutant: the except branch forgets wrong_data.append(element)
simple_validate_drops_wrong(json, w) ==
    [ValidateLoop(json, 1, [valid |-> <<>>, wrong |-> <<>>, warnings |-> w])
        EXCEPT !.wrong = <<>>]

\* returns valid_data, wrong_data and self._warnings after the call
simple_validate(json, w) ==
    ValidateLoop(json, 1, [valid |-> <<>>, wrong |-> <<>>, warnings |-> w])

----------------------------------------------------------------------------
(* Program.get_user_todo_names *)

\* int(todo["userId"]): userId is a JSON integer, on which int() returns
\* the same number
int(x) == x

\* mutant: len(title) >= 48 in place of len(title) > 48
TruncateFromLimit(title) ==
    IF Len(title) >= TitleLimit
    THEN SubSeq(title, 1, TitleLimit) \o Ellipsis
    ELSE title

Truncate(title) ==
    IF Len(title) > TitleLimit
    THEN SubSeq(title, 1, TitleLimit) \o Ellipsis
    ELSE title

RECURSIVE SplitLoop(_, _, _, _)
SplitLoop(user_id, todo_list, k, acc) ==
    IF k > Len(todo_list) THEN acc
    ELSE LET todo == todo_list[k]
         IN IF int(todo.userId) = user_id
            THEN LET title == Truncate(todo.title)
                 IN IF todo.completed = TRUE
                    THEN SplitLoop(user_id, todo_list, k + 1,
                            <<Append(acc[1], title), acc[2]>>)
                    ELSE SplitLoop(user_id, todo_list, k + 1,
                            <<acc[1], Append(acc[2], title)>>)
            ELSE SplitLoop(user_id, todo_list, k + 1, acc)

get_user_todo_names(user_id, todo_list) ==
    SplitLoop(user_id, todo_list, 1, <<<<>>, <<>>>>)

----------------------------------------------------------------------------
(* Program.get_user_todo_names_request and the remote source *)

Digit == <<"0", "1", "2", "3", "4", "5", "6", "7", "8", "9">>

\* str(user_id): decimal digits
RECURSIVE str(_)
str(n) ==
    IF n < 10 THEN <<Digit[n + 1]>>
    ELSE str(n \div 10) \o <<Digit[(n % 10) + 1]>>

\* JSON text of a boolean field, as the query parameter spells it
BoolText(b) == IF b THEN "true" ELSE "false"

\* requests.get(todos_url, params={"userId": ..., "completed": ...}).json():
\* the records of the collection whose fields match the query parameters,
\* in collection order
RemoteTodos(collection, params) ==
    SelectSeq(collection,
              LAMBDA t : /\ str(t.userId) = params.userId
                         /\ BoolText(t.completed) = params.completed)

\* mutant: the comprehension keeps every title whole
TitlesWhole(todo_seq) == [k \in 1..Len(todo_seq) |-> todo_seq[k].title]

\* the list comprehension over the validated response
TitlesOf(todo_seq) == [k \in 1..Len(todo_seq) |-> Truncate(todo_seq[k].title)]

Request(url, params) == [url |-> url, params |-> params]
NoParams == [userId |-> <<>>, completed |-> ""]

----------------------------------------------------------------------------
(* Program.create_text_report *)

create_text_report(user, todo_pair, stamp) ==
    [name        |-> user.name,
     stamp       |-> stamp,
     total       |-> Len(todo_pair[1]) + Len(todo_pair[2]),
     completed   |-> todo_pair[1],
     uncompleted |-> todo_pair[2]]

EmptyBody ==
    [name |-> "", stamp |-> 0, total |-> 0, completed |-> <<>>, uncompleted |-> <<>>]

----------------------------------------------------------------------------
(* Files of tasks/ and Program.rename_old_report *)

Stems == {"a", "b", "x"}
Minutes == 0..MaxMinute

Live(stem) == <<"tasks", stem, 0>>          \* tasks/<stem>.txt
Backup(stem, m) == <<"old", stem, m>>       \* tasks\old_<stem>_<minute>.txt
NoPath == <<"none", "", 0>>                 \* None

Paths == {Live(s) : s \in Stems} \cup {Backup(s, m) : s \in Stems, m \in Minutes}
PathsOf(stem) == {Live(stem)} \cup {Backup(stem, m) : m \in Minutes}

Absent == [kind |-> "absent", body |-> EmptyBody, mtime |-> 0]
exists(files, path) == files[path].kind # "absent"

\* mutant: renames without looking whether the backup name is taken
rename_over_backup(files, file) ==
    IF exists(files, file)
    THEN LET old_file_name == Backup(file[2], files[file].mtime)
         IN [files |-> [files EXCEPT ![old_file_name] = files[file],
                                     ![file] = Absent],
             old |-> old_file_name]
    ELSE [files |-> files, old |-> NoPath]

\* returns the files after the call and the returned name (NoPath for None)
rename_old_report(files, file) ==
    IF exists(files, file)
    THEN LET created_time == files[file].mtime
             old_file_name == Backup(file[2], created_time)
         IN IF ~exists(files, old_file_name)
            THEN [files |-> [files EXCEPT ![old_file_name] = files[file],
                                          ![file] = Absent],
                  old |-> old_file_name]
            ELSE [files |-> files, old |-> NoPath]
    ELSE [files |-> files, old |-> NoPath]

\* file.open('w'): the file exists afterwards and is empty
OpenW(files, file, t) ==
    [files EXCEPT ![file] = [kind |-> "partial", body |-> EmptyBody, mtime |-> t]]

\* file.write(report) and the close at the end of the with block
WriteAll(files, file, text, t) ==
    [files EXCEPT ![file] = [kind |-> "report", body |-> text, mtime |-> t]]

\* the except block of run() when file is still the Path: unlink, restore
Rollback(files, file, old) ==
    LET unlinked == IF exists(files, file)
                    THEN [files EXCEPT ![file] = Absent]
                    ELSE files
    IN IF old # NoPath
       THEN [unlinked EXCEPT ![file] = unlinked[old], ![old] = Absent]
       ELSE unlinked

SaveWarning(file) == <<"failed to save", file>>

----------------------------------------------------------------------------
(* Program.save_warnings and Program.save_errors *)

RECURSIVE Join(_, _)
Join(sep, s) ==
    IF s = <<>> THEN <<>>
    ELSE IF Len(s) = 1 THEN <<s[1]>>
    ELSE <<s[1], sep>> \o Join(sep, Tail(s))

NoRecord == [exists |-> FALSE, text |-> <<>>]

save_record(records, t, lines) ==
    IF records[t].exists THEN records
    ELSE [records EXCEPT ![t] = [exists |-> TRUE, text |-> Join("/n", lines)]]

save_warnings(records, t, w) == save_record(records, t, w)

\* str(e) of the RequestException; save_errors joins its characters
ErrorText == <<"E", "r", "r">>
save_errors(records, t, errors) == save_record(records, t, errors)

----------------------------------------------------------------------------
(* The collections a data source can hold *)

UA == [id |-> 1, username |-> "a", name |-> "A", ok |-> TRUE]
UB == [id |-> 2, username |-> "b", name |-> "B", ok |-> TRUE]
UX == [id |-> 1, username |-> "x", name |-> "",  ok |-> FALSE]

TShort == [userId |-> 1, title |-> MkTitle(3, "s"),  completed |-> TRUE,  ok |-> TRUE]
TLong == [userId |-> 1, title |-> MkTitle(49, "l"), completed |-> FALSE, ok |-> TRUE]
TOther == [userId |-> 2, title |-> MkTitle(48, "m"), completed |-> TRUE,  ok |-> TRUE]
TWrong == [userId |-> 1, title |-> MkTitle(2, "w"),  completed |-> TRUE,  ok |-> FALSE]

UserPool == {UA, UB, UX}
TodoPool == {TShort, TLong, TOther, TWrong}

\* username is unique within a users collection
UniqueNames(us) ==
    \A j, k \in 1..Len(us) : us[j].username = us[k].username => j = k

\* one execution, every collection up to the bounds
UsersChoices == {us \in SeqsUpTo(UserPool, MaxUsers) : UniqueNames(us)}
TodosChoices == SeqsUpTo(TodoPool, MaxTodos)

\* repeated executions over the same working directory
RerunUsers == {<<UA, UB>>, <<UX, UA>>}
RerunTodos == {<<TShort, TWrong>>, <<TLong, TOther>>}

\* repeated local executions
RotateUsers == {<<UA>>, <<UA, UB>>}
RotateTodos == {<<TShort>>, <<TLong, TOther>>}

users_url == "users"
todos_url == "todos"

----------------------------------------------------------------------------
(* Initial state: nothing has run yet in an empty working directory *)

NoCall ==
    /\ arg_id = 0
    /\ arg_list = <<>>
    /\ ret = <<>>

RunInit(modeArgs, usersChoices, todosChoices) ==
    /\ mode \in modeArgs
    /\ now = 0
    /\ runs = 1
    /\ dirs = "absent"
    /\ schemasRead = FALSE
    /\ localRead = FALSE
    /\ usersData \in usersChoices
    /\ todosData \in todosChoices
    /\ users = <<>>
    /\ todos = <<>>
    /\ i = 0
    /\ user_todo = <<<<>>, <<>>>>
    /\ report = EmptyBody
    /\ old_file = NoPath
    /\ fs = [p \in Paths |-> Absent]
    /\ pre = [p \in Paths |-> Absent]
    /\ fs0 = [p \in Paths |-> Absent]
    /\ lastPersist = "none"
    /\ failures = 0
    /\ done_users = 0
    /\ warnFiles = [m \in Minutes |-> NoRecord]
    /\ errFiles = [m \in Minutes |-> NoRecord]
    /\ requests = <<>>
    /\ fetchFailed = FALSE
    /\ saveWarningsCalls = 0
    /\ saveErrorsCalls = 0

InitWith(modeArgs, usersChoices, todosChoices) ==
    /\ pc = "start"
    /\ RunInit(modeArgs, usersChoices, todosChoices)
    /\ warnings = <<>>
    /\ NoCall

Init == InitWith(ModeArgs, RerunUsers, RerunTodos)
InitOnce == InitWith(ModeArgs, UsersChoices, TodosChoices)
InitRotate == InitWith({"local"}, RotateUsers, RotateTodos)

direct == <<arg_id, arg_list, ret>>
data == <<usersData, todosData>>
clock == <<now, runs>>
locals == <<users, todos, i, user_todo, report, old_file>>
persist == <<fs, pre, lastPersist, failures, done_users>>
records == <<warnFiles, errFiles, saveWarningsCalls, saveErrorsCalls>>
startup == <<dirs, schemasRead, localRead>>

----------------------------------------------------------------------------
(* main() and Program.__init__ *)

\* program = Program(): check_folders, the two schema loads, _warnings
Construct ==
    /\ pc = "start"
    /\ pc' = "run"
    /\ dirs' = IF dirs = "absent" THEN "created" ELSE dirs
    /\ schemasRead' = TRUE
    /\ warnings' = <<>>
    /\ UNCHANGED <<mode, clock, localRead, data, locals, persist, fs0,
                   records, requests, fetchFailed, direct>>

----------------------------------------------------------------------------
(* Program.run: acquisition *)

\* mutant: the except block records the error and does not raise
AbortSwallowed ==
    /\ errFiles' = save_errors(errFiles, now, ErrorText)
    /\ saveErrorsCalls' = saveErrorsCalls + 1
    /\ fetchFailed' = TRUE
    /\ pc' = "persist"

\* the except RequestException blocks: save_errors(str(e)); raise SystemExit(e)
Abort ==
    /\ errFiles' = save_errors(errFiles, now, ErrorText)
    /\ saveErrorsCalls' = saveErrorsCalls + 1
    /\ fetchFailed' = TRUE
    /\ pc' = "aborted"

\* else: raise ValueError
RunBadMode ==
    /\ pc = "run"
    /\ mode \notin Modes
    /\ pc' = "config_error"
    /\ UNCHANGED <<mode, clock, startup, data, locals, persist, fs0, warnings,
                   records, requests, fetchFailed, direct>>

\* mode == 'local': both local files, validate todos, validate users
RunLocal ==
    /\ pc = "run"
    /\ mode = "local"
    /\ localRead' = TRUE
    /\ LET vt == simple_validate(todosData, warnings)
           vu == simple_validate(usersData, vt.warnings)
       IN /\ todos' = vt.valid
          /\ users' = vu.valid
          /\ warnings' = vu.warnings
    /\ i' = 1
    /\ pc' = "loop"
    /\ UNCHANGED <<mode, clock, dirs, schemasRead, data, user_todo, report,
                   old_file, persist, fs0, records, requests, fetchFailed,
                   direct>>

\* users = requests.get(self.users_url).json(), in less_requests and normal;
\* normal goes on to validate the users
FetchUsers ==
    /\ pc = "run"
    /\ mode \in {"less_requests", "normal"}
    /\ requests' = Append(requests, Request(users_url, NoParams))
    /\ \/ /\ mode = "less_requests"
          /\ users' = usersData
          /\ pc' = "fetch_todos"
          /\ UNCHANGED <<i, warnings, errFiles, saveErrorsCalls, fetchFailed>>
       \/ /\ mode = "normal"
          /\ LET vu == simple_validate(usersData, warnings)
             IN /\ users' = vu.valid
                /\ warnings' = vu.warnings
          /\ i' = 1
          /\ pc' = "loop"
          /\ UNCHANGED <<errFiles, saveErrorsCalls, fetchFailed>>
       \/ /\ Abort
          /\ UNCHANGED <<users, i, warnings>>
    /\ UNCHANGED <<mode, clock, startup, data, todos, user_todo, report,
                   old_file, persist, fs0, warnFiles, saveWarningsCalls,
                   direct>>

\* todos = requests.get(self.todos_url).json() of less_requests, then the
\* validation of todos and of users
FetchTodos ==
    /\ pc = "fetch_todos"
    /\ requests' = Append(requests, Request(todos_url, NoParams))
    /\ \/ /\ LET vt == simple_validate(todosData, warnings)
                 vu == simple_validate(users, vt.warnings)
             IN /\ todos' = vt.valid
                /\ users' = vu.valid
                /\ warnings' = vu.warnings
          /\ i' = 1
          /\ pc' = "loop"
          /\ UNCHANGED <<errFiles, saveErrorsCalls, fetchFailed>>
       \/ /\ Abort
          /\ UNCHANGED <<users, todos, i, warnings>>
    /\ UNCHANGED <<mode, clock, startup, data, user_todo, report, old_file,
                   persist, fs0, warnFiles, saveWarningsCalls, direct>>

----------------------------------------------------------------------------
(* Program.run: the loop over the valid users *)

InLoop == pc = "loop" /\ i <= Len(users)
user == users[i]
file == Live(user.username)

\* user_todo = self.get_user_todo_names(user["id"], todos)
ResolveClient ==
    /\ InLoop
    /\ mode # "normal"
    /\ user_todo' = get_user_todo_names(user.id, todos)
    /\ pc' = "persist"
    /\ UNCHANGED <<mode, clock, startup, data, users, todos, i, report,
                   old_file, persist, fs0, warnings, records, requests,
                   fetchFailed, direct>>

\* get_user_todo_names_request: the completed='true' request, its validation
\* and its titles
FetchCompleted ==
    /\ InLoop
    /\ mode = "normal"
    /\ LET params == [userId |-> str(user.id), completed |-> "true"]
       IN /\ requests' = Append(requests, Request(todos_url, params))
          /\ \/ /\ LET v == simple_validate(RemoteTodos(todosData, params), warnings)
                   IN /\ user_todo' = <<TitlesOf(v.valid), <<>>>>
                      /\ warnings' = v.warnings
                /\ pc' = "fetch_uncompleted"
                /\ UNCHANGED <<errFiles, saveErrorsCalls, fetchFailed>>
             \/ /\ Abort
                /\ UNCHANGED <<user_todo, warnings>>
    /\ UNCHANGED <<mode, clock, startup, data, users, todos, i, report,
                   old_file, persist, fs0, warnFiles, saveWarningsCalls,
                   direct>>

\* get_user_todo_names_request: the completed='false' request, its
\* validation and its titles, and the return
FetchUncompleted ==
    /\ pc = "fetch_uncompleted"
    /\ LET params == [userId |-> str(user.id), completed |-> "false"]
       IN /\ requests' = Append(requests, Request(todos_url, params))
          /\ \/ /\ LET v == simple_validate(RemoteTodos(todosData, params), warnings)
                   IN /\ user_todo' = <<user_todo[1], TitlesOf(v.valid)>>
                      /\ warnings' = v.warnings
                /\ pc' = "persist"
                /\ UNCHANGED <<errFiles, saveErrorsCalls, fetchFailed>>
             \/ /\ Abort
                /\ UNCHANGED <<user_todo, warnings>>
    /\ UNCHANGED <<mode, clock, startup, data, users, todos, i, report,
                   old_file, persist, fs0, warnFiles, saveWarningsCalls,
                   direct>>

\* report = create_text_report(...); old_file = rename_old_report(file)
RenderAndRotate ==
    /\ pc = "persist"
    /\ report' = create_text_report(user, user_todo, now)
    /\ pre' = fs
    /\ LET r == rename_old_report(fs, file)
       IN /\ fs' = r.files
          /\ old_file' = r.old
    /\ lastPersist' = "pending"
    /\ pc' = "open"
    /\ UNCHANGED <<mode, clock, startup, data, users, todos, i, user_todo,
                   failures, done_users, fs0, warnings, records, requests,
                   fetchFailed, direct>>

\* file.open('w'): either the file is opened (and is empty from then on), or
\* EnvironmentError is raised with file still bound to the Path, and the
\* except block runs to its end
Open ==
    /\ pc = "open"
    /\ \/ /\ fs' = OpenW(fs, file, now)
          /\ pc' = "write"
          /\ UNCHANGED <<i, lastPersist, failures, done_users, warnings>>
       \/ /\ warnings' = Append(warnings, SaveWarning(file))
          /\ fs' = Rollback(fs, file, old_file)
          /\ lastPersist' = "open_failed"
          /\ failures' = failures + 1
          /\ done_users' = done_users + 1
          /\ i' = i + 1
          /\ pc' = "loop"
    /\ UNCHANGED <<mode, clock, startup, data, users, todos, user_todo,
                   report, old_file, pre, fs0, records, requests,
                   fetchFailed, direct>>

\* file.write(report) inside the with block, file now bound to the opened
\* file object: either the report is written, or EnvironmentError is raised,
\* the except block appends its warning and then calls exists() on the file
\* object, which raises AttributeError out of run()
Write ==
    /\ pc = "write"
    /\ \/ /\ fs' = WriteAll(fs, file, report, now)
          /\ lastPersist' = "ok"
          /\ done_users' = done_users + 1
          /\ i' = i + 1
          /\ pc' = "loop"
          /\ UNCHANGED <<failures, warnings>>
       \/ /\ fs' = OpenW(fs, file, now)
          /\ warnings' = Append(warnings, SaveWarning(file))
          /\ lastPersist' = "write_failed"
          /\ failures' = failures + 1
          /\ pc' = "crashed"
          /\ UNCHANGED <<i, done_users>>
    /\ UNCHANGED <<mode, clock, startup, data, users, todos, user_todo,
                   report, old_file, pre, fs0, records, requests,
                   fetchFailed, direct>>

\* self.save_warnings() after the loop
SaveWarnings ==
    /\ pc = "loop"
    /\ i > Len(users)
    /\ warnFiles' = save_warnings(warnFiles, now, warnings)
    /\ saveWarningsCalls' = saveWarningsCalls + 1
    /\ pc' = "done"
    /\ UNCHANGED <<mode, clock, startup, data, locals, persist, fs0,
                   warnings, errFiles, saveErrorsCalls, requests,
                   fetchFailed, direct>>

----------------------------------------------------------------------------
(* Environment *)

Ended == pc \in {"done", "aborted", "crashed", "config_error"}

\* a minute passes
Tick ==
    /\ now < MaxMinute
    /\ now' = now + 1
    /\ UNCHANGED <<pc, mode, runs, startup, data, locals, persist, fs0,
                   warnings, records, requests, fetchFailed, direct>>

\* the program is started again, in the same working directory
Start(modeArgs, limit) ==
    /\ Ended
    /\ runs < limit
    /\ runs' = runs + 1
    /\ pc' = "start"
    /\ mode' \in modeArgs
    /\ dirs' = IF dirs = "created" THEN "present" ELSE dirs
    /\ schemasRead' = FALSE
    /\ localRead' = FALSE
    /\ users' = <<>>
    /\ todos' = <<>>
    /\ i' = 0
    /\ user_todo' = <<<<>>, <<>>>>
    /\ report' = EmptyBody
    /\ old_file' = NoPath
    /\ pre' = fs
    /\ fs0' = fs
    /\ lastPersist' = "none"
    /\ failures' = 0
    /\ done_users' = 0
    /\ warnings' = <<>>
    /\ requests' = <<>>
    /\ fetchFailed' = FALSE
    /\ saveWarningsCalls' = 0
    /\ saveErrorsCalls' = 0
    /\ UNCHANGED <<now, data, fs, warnFiles, errFiles, direct>>

Restart == Start(ModeArgs, MaxRuns)
RestartLocal == Start({"local"}, MaxLocalRuns)

Next ==
    \/ Construct
    \/ RunBadMode
    \/ RunLocal
    \/ FetchUsers
    \/ FetchTodos
    \/ ResolveClient
    \/ FetchCompleted
    \/ FetchUncompleted
    \/ RenderAndRotate
    \/ Open
    \/ Write
    \/ SaveWarnings
    \/ Tick
    \/ Restart

\* repeated executions in every mode
Spec == Init /\ [][Next]_vars

NextOnce ==
    \/ Construct
    \/ RunBadMode
    \/ RunLocal
    \/ FetchUsers
    \/ FetchTodos
    \/ ResolveClient
    \/ FetchCompleted
    \/ FetchUncompleted
    \/ RenderAndRotate
    \/ Open
    \/ Write
    \/ SaveWarnings
    \/ Tick

\* one execution over every collection up to the bounds
SpecOnce == InitOnce /\ [][NextOnce]_vars

NextRotate ==
    \/ Construct
    \/ RunLocal
    \/ ResolveClient
    \/ RenderAndRotate
    \/ Open
    \/ Write
    \/ SaveWarnings
    \/ Tick
    \/ RestartLocal

\* repeated local executions
SpecRotate == InitRotate /\ [][NextRotate]_vars

----------------------------------------------------------------------------
(* Direct calls of the two pure functions *)

SplitTitles == {MkTitle(1, "s"), MkTitle(48, "m"), MkTitle(49, "l")}
SplitPool ==
    {[userId |-> u, title |-> t, completed |-> c, ok |-> TRUE] :
        u \in 1..2, t \in SplitTitles, c \in BOOLEAN}

UY == [id |-> 2, username |-> "y", name |-> "", ok |-> FALSE]
JsonPool == {UA, UB, UX, UY}

InitSplit ==
    /\ pc = "call_split"
    /\ RunInit({"local"}, {<<>>}, {<<>>})
    /\ warnings = <<>>
    /\ arg_id \in 1..2
    /\ arg_list \in SeqsUpTo(SplitPool, MaxSplitLen)
    /\ ret = <<>>

\* get_user_todo_names(arg_id, arg_list)
CallSplit ==
    /\ pc = "call_split"
    /\ ret' = get_user_todo_names(arg_id, arg_list)
    /\ pc' = "returned"
    /\ UNCHANGED <<mode, clock, startup, data, locals, persist, fs0, warnings,
                   records, requests, fetchFailed, arg_id, arg_list>>

SpecSplit == InitSplit /\ [][CallSplit]_vars

InitPartition ==
    /\ pc = "call_validate"
    /\ RunInit({"local"}, {<<>>}, {<<>>})
    /\ warnings \in {<<>>, <<SaveWarning(Live("a"))>>}
    /\ arg_id = 0
    /\ arg_list \in SeqsUpTo(JsonPool, MaxJsonLen)
    /\ ret = <<>>

\* self.simple_validate(arg_list, schema)
CallValidate ==
    /\ pc = "call_validate"
    /\ LET v == simple_validate(arg_list, warnings)
       IN /\ ret' = <<v.valid, v.wrong>>
          /\ warnings' = v.warnings
    /\ pc' = "validated"
    /\ UNCHANGED <<mode, clock, startup, data, locals, persist, fs0,
                   records, requests, fetchFailed, arg_id, arg_list>>

SpecPartition == InitPartition /\ [][CallValidate]_vars

----------------------------------------------------------------------------
(* Properties *)

\* the user whose persist attempt lastPersist speaks of
attempted == IF pc \in {"open", "write", "crashed"} THEN users[i] ELSE users[i - 1]
target == Live(attempted.username)
PersistFailed == lastPersist \in {"open_failed", "write_failed"}

\* C1: after the handling of a persist failure the target path is absent if
\* no file was there before the attempt, holds its pre-attempt content if one
\* was, and a backup rotated in this attempt is back under its original name.
C1_RollbackRestoresPriorState ==
    PersistFailed =>
        /\ fs[target].kind = pre[target].kind
        /\ fs[target].body = pre[target].body
        /\ old_file # NoPath => ~exists(fs, old_file)

\* C2: a persist failure, at the open or at the write, adds one warning for
\* that user and never terminates the run: the loop goes on and a run without
\* fetch failure that has ended has executed save_warnings.
C2_PersistFailureIsRecoverable ==
    /\ PersistFailed =>
          /\ pc # "crashed"
          /\ Cardinality({k \in 1..Len(warnings) : warnings[k] = SaveWarning(target)}) = 1
    /\ (failures > 0 /\ Ended /\ ~fetchFailed) => saveWarningsCalls = 1

\* the files of the users the loop has not finished yet are as they were when
\* the execution started
LaterUsersUntouched ==
    IF mode = "normal" /\ i >= 1
    THEN \A j \in i..Len(users) :
            \A p \in PathsOf(users[j].username) : fs[p] = fs0[p]
    ELSE fs = fs0

\* C3: once a requests.get raises RequestException, save_errors has run and
\* left an error record for that minute, the run has ended, the reports of
\* the user being fetched and of all later users are as the run found them,
\* and no file of tasks/ changes from then on.
C3_FetchFailureIsFatal ==
    [][/\ (~fetchFailed /\ fetchFailed') =>
            /\ pc' = "aborted"
            /\ saveErrorsCalls' = saveErrorsCalls + 1
            /\ errFiles'[now].exists
            /\ ~errFiles[now].exists => errFiles'[now].text = Join("/n", ErrorText)
            /\ fs' = fs
            /\ LaterUsersUntouched'
       /\ fetchFailed =>
            /\ pc = "aborted"
            /\ pc' \in {"aborted", "start"}
            /\ fs' = fs]_vars

\* C3 witness: a normal run aborted at its second user, after writing the
\* first user's report, where the second user had a report from before
C3_Witness ==
    /\ pc = "aborted"
    /\ mode = "normal"
    /\ i = 2
    /\ lastPersist = "ok"
    /\ fs[Live(users[1].username)].body = report
    /\ exists(fs0, Live(users[2].username))

BackupPaths == {Backup(s, m) : s \in Stems, m \in Minutes}

\* C4: an existing backup is never overwritten; rename_old_report renames the
\* old report to the derived backup name when that name is free and does
\* nothing when it is taken; a successful write leaves the target path
\* holding the report just written.
C4_RotationNeverOverwrites ==
    [][/\ \A p \in BackupPaths :
            (exists(fs, p) /\ exists(fs', p)) => fs'[p] = fs[p]
       /\ (pc = "persist" /\ pc' = "open" /\ exists(fs, file)) =>
            LET derived == Backup(user.username, fs[file].mtime)
            IN IF exists(fs, derived)
               THEN fs' = fs /\ old_file' = NoPath
               ELSE /\ fs' = [fs EXCEPT ![derived] = fs[file], ![file] = Absent]
                    /\ old_file' = derived
       /\ (pc = "write" /\ lastPersist' = "ok") =>
            /\ fs'[file] = [kind |-> "report", body |-> report, mtime |-> now]
            /\ \A p \in Paths \ {file} : fs'[p] = fs[p]]_vars

\* C4 witness: a report written in place over an existing one whose derived
\* backup name was taken
C4_Witness ==
    /\ lastPersist = "ok"
    /\ pc = "loop"
    /\ old_file = NoPath
    /\ exists(pre, target)
    /\ exists(pre, Backup(attempted.username, pre[target].mtime))
    /\ fs[target].body = report

\* C5: every run, completed or aborted by a fetch failure, has executed
\* save_warnings exactly once when it ends, and a warnings record holds every
\* warning of the run.
C5_WarningsFlushedOnce ==
    pc \in {"done", "aborted"} =>
        /\ saveWarningsCalls = 1
        /\ \E m \in Minutes :
              /\ warnFiles[m].exists
              /\ \A k \in 1..Len(warnings) : warnings[k] \in Range(warnFiles[m].text)

ValidUsers == SelectSeq(usersData, LAMBDA u : u.ok)

\* C6: a run in which no fetch fails has issued 0 requests in local mode, 2
\* in less_requests mode and 1 + 2*N in normal mode, N the number of valid
\* users, when it ends.
C6_RequestCount ==
    (pc \in {"done", "crashed"} /\ ~fetchFailed) =>
        Len(requests) = CASE mode = "local" -> 0
                          [] mode = "less_requests" -> 2
                          [] mode = "normal" -> 1 + 2 * Len(ValidUsers)

\* C7: when the mode is not recognised the program has, at the failure, read
\* nothing, fetched nothing and created nothing since it started.
C7_BadModeBeforeAnyIO ==
    pc = "config_error" =>
        /\ dirs # "created"
        /\ ~schemasRead
        /\ ~localRead
        /\ requests = <<>>
        /\ fs = fs0
        /\ saveWarningsCalls = 0
        /\ saveErrorsCalls = 0

\* the split the contract describes, by selection
RefTitle(title) ==
    IF Len(title) <= 48 THEN title
    ELSE [k \in 1..51 |-> IF k <= 48 THEN title[k] ELSE "."]
RefTitles(uid, todo_seq, wanted) ==
    LET chosen == SelectSeq(todo_seq,
                    LAMBDA t : t.userId = uid /\ (t.completed = TRUE) = wanted)
    IN [k \in 1..Len(chosen) |-> RefTitle(chosen[k].title)]
RefSplit(uid, todo_seq) == <<RefTitles(uid, todo_seq, TRUE), RefTitles(uid, todo_seq, FALSE)>>

\* C8: get_user_todo_names returns the reference split (the user's completed
\* and uncompleted titles in input order, titles over 48 characters cut to 48
\* plus '...') and leaves its arguments as they were.
C8_SplitIsReference ==
    [][pc = "call_split" =>
          /\ ret' = RefSplit(arg_id, arg_list)
          /\ arg_list' = arg_list
          /\ arg_id' = arg_id]_vars

\* C8 witness: a call that cut a 49-character title to 51 characters, kept
\* a 48-character one whole and left out another user's todo
C8_Witness ==
    /\ pc = "returned"
    /\ \E k \in 1..Len(arg_list) : arg_list[k].userId # arg_id
    /\ \E t \in Range(ret[1]) \cup Range(ret[2]) : Len(t) = 51
    /\ \E t \in Range(ret[1]) \cup Range(ret[2]) : Len(t) = 48

\* C9: simple_validate puts every record in exactly one of valid_data and
\* wrong_data, in input order, and appends one diagnostic per wrong record.
C9_ValidatePartitions ==
    [][pc = "call_validate" =>
          LET valid == ret'[1]
              wrong == ret'[2]
              bad == SelectSeq(arg_list, LAMBDA e : ~e.ok)
          IN /\ Len(valid) + Len(wrong) = Len(arg_list)
             /\ valid = SelectSeq(arg_list, LAMBDA e : e.ok)
             /\ wrong = bad
             /\ Len(warnings') = Len(warnings) + Len(wrong)
             /\ SubSeq(warnings', 1, Len(warnings)) = warnings
             /\ \A k \in 1..Len(bad) :
                   warnings'[Len(warnings) + k] = Diagnostic(bad[k])
             /\ arg_list = <<>> => (valid = <<>> /\ wrong = <<>> /\ warnings' = warnings)]_vars

\* C9 witness: a call with a valid and a wrong record, on an accumulator
\* that already held a warning
C9_Witness ==
    /\ pc = "validated"
    /\ Len(ret[1]) >= 1
    /\ Len(ret[2]) >= 2
    /\ Len(warnings) = 3

\* what a less_requests run computes for a user: client-side filtering of
\* the validated full collection
ClientSplit(u) == get_user_todo_names(u.id, simple_validate(todosData, <<>>).valid)

\* C10: in a normal run the pair built from the two filtered fetches is the
\* pair a less_requests run computes for the same user, and when the run is
\* done with no write failure every valid user's report holds that pair and
\* its total.
C10_ModesAgree ==
    /\ (mode = "normal" /\ pc = "persist") => user_todo = ClientSplit(user)
    /\ (mode \in {"normal", "less_requests"} /\ pc = "done" /\ failures = 0) =>
          \A k \in 1..Len(ValidUsers) :
             LET u == ValidUsers[k]
                 f == fs[Live(u.username)]
             IN /\ f.kind = "report"
                /\ <<f.body.completed, f.body.uncompleted>> = ClientSplit(u)
                /\ f.body.total = Len(ClientSplit(u)[1]) + Len(ClientSplit(u)[2])

\* C10 witness: a finished normal run whose report for user a holds a
\* completed title and a truncated uncompleted one
C10_Witness ==
    /\ mode = "normal"
    /\ pc = "done"
    /\ failures = 0
    /\ fs[Live("a")].kind = "report"
    /\ fs[Live("a")].body.total = 2
    /\ Len(fs[Live("a")].body.uncompleted[1]) = 51

====
